---------------------------- MODULE Spec2Model ----------------------------
(***************************************************************************)
(* Model of the measurement-analysis core of d10frertest:                  *)
(*   - the zero-loss rate search of advanced_rfc2544_test.py               *)
(*     (RFC2544Test.binary_search_throughput) and of                       *)
(*     comprehensive_network_test.py (NetworkTester.test_rfc2544_throughput)*)
(*   - the back-to-back burst search of rfc2544_extended_test.py           *)
(*   - the FRER sequence analysis of frer_reliability_test.py              *)
(*   - the dual-path minimum selection of frer_comparison_analysis.py      *)
(*                                                                         *)
(* Units.  Rates are kept as integers in units of 2^-20 Mbps: both searches*)
(* start from the integers 1 and 1000 and halve at most 20 times, so every *)
(* midpoint is a dyadic rational with at most 20 fractional bits and is    *)
(* exact both in the IEEE doubles of the code and in this unit.  Loss      *)
(* figures are integers in units of 0.0001 percent.                        *)
(***************************************************************************)
EXTENDS Integers, Sequences, FiniteSets, TLC

VARIABLES
    running,          \* which script's routine this run executes
    \* RFC2544Test.binary_search_throughput (advanced_rfc2544_test.py)
    min_mbps, max_mbps, best_throughput, iterations, adv_pc, adv_returned,
    \* NetworkTester.test_rfc2544_throughput (comprehensive_network_test.py)
    min_rate, max_rate, best_rate, iteration, comp_pc,
    \* observation log of the rate probes of the run (history variables)
    probe_count, passed_rates, bad_rates, any_fail, monotone, loss_lo, loss_hi,
    last_rate, last_result,
    \* RFC2544ExtendedTest.back_to_back_test (rfc2544_extended_test.py)
    trial, burst_i, best_burst, trials, b2b_pc, max_burst_no_loss, avg_burst,
    std_burst_sq,
    \* per-trial observations of the burst probes (history variables)
    own_best, own_trials, burst_probes, last_outcome,
    \* FRERTest.analyze_pcap (frer_reliability_test.py)
    packets, pkt_i, total_packets, duplicates, unique_seq, out_of_order, prev_seq,
    pcap_pc, analysis,
    \* frer_comparison_analysis.py
    path1, path2, frer_latencies, dual_pc, dual_outcome,
    \* main() of frer_comparison_analysis.py after the selection
    main_pc, stats_path1, stats_path2, stats_frer, improvement, main_outcome,
    \* the latency statistics of test_latency_icmp (advanced_rfc2544_test.py,
    \* latency_only_test.py), test_rfc2544_latency (comprehensive_network_test.py)
    \* and test_rfc2544_latency_detailed (quick_test.py)
    latencies, lat_stats, lat_outcome,
    \* FRERTest.test_path_redundancy and send_replicated_frames
    \* (frer_reliability_test.py): the object's fields, the locals of the two
    \* routines, and the statistics returned so far
    primary_iface, secondary_iface, sequence_number, red_pc, count, frame_i,
    old_primary, old_secondary, sent_primary, sent_secondary, errors, results,
    \* what the run has put on the wire and where it started (history variables)
    sent, assigned, call_start, primary_iface_0, secondary_iface_0

rate_vars == <<min_mbps, max_mbps, best_throughput, iterations, adv_pc, adv_returned,
               min_rate, max_rate, best_rate, iteration, comp_pc,
               probe_count, passed_rates, bad_rates, any_fail, monotone, loss_lo,
               loss_hi, last_rate, last_result>>

b2b_vars == <<trial, burst_i, best_burst, trials, b2b_pc, max_burst_no_loss, avg_burst,
              std_burst_sq, own_best, own_trials, burst_probes, last_outcome>>

pcap_vars == <<packets, pkt_i, total_packets, duplicates, unique_seq, out_of_order,
               prev_seq, pcap_pc, analysis>>

dual_vars == <<path1, path2, frer_latencies, dual_pc, dual_outcome>>

main_vars == <<main_pc, stats_path1, stats_path2, stats_frer, improvement, main_outcome>>

lat_vars == <<latencies, lat_stats, lat_outcome>>

red_vars == <<primary_iface, secondary_iface, sequence_number, red_pc, count, frame_i,
              old_primary, old_secondary, sent_primary, sent_secondary, errors, results,
              sent, assigned, call_start, primary_iface_0, secondary_iface_0>>

vars == <<running, rate_vars, b2b_vars, pcap_vars, dual_vars, main_vars, lat_vars, red_vars>>

-----------------------------------------------------------------------------
(* Arithmetic helpers *)

RECURSIVE Pow2(_)
Pow2(n) == IF n = 0 THEN 1 ELSE 2 * Pow2(n - 1)

Min2(a, b) == IF a <= b THEN a ELSE b
Max2(a, b) == IF a >= b THEN a ELSE b

\* advanced_rfc2544_test.py:219  max_iterations = 20
max_iterations == 20
\* comprehensive_network_test.py:210  for iteration in range(10)
comp_max_iterations == 10

\* model units per Mbps
Mbps == Pow2(max_iterations)

\* advanced_rfc2544_test.py:212-213 / comprehensive_network_test.py:203-204
min_mbps_0 == 1
max_mbps_0 == 1000
min_rate_0 == 1
max_rate_0 == 1000

\* tolerance = 0.01 is one hundredth: advanced:214, comprehensive:205
tolerance_den == 100
comp_tolerance_den == 100

\* loss figures, in units of 0.0001 percent
\* advanced_rfc2544_test.py:215  zero_loss_threshold = 0.001
zero_loss_threshold == 10
\* comprehensive_network_test.py:230  if loss_percent < 0.001
comp_loss_threshold == 10
FullLoss == 1000000

\* (lo + hi) / 2, exact in the model unit for at most 20 halvings
Midpoint(lo, hi) == (lo + hi) \div 2

\* (hi - lo) / hi > 1/den, for integers: den*(hi-lo) > hi  <=>  hi-lo > hi \div den.
\* The double comparison of the code agrees with the exact one: hi and hi-lo
\* are exact doubles, and den*(hi-lo) differs from hi by at least one unit
\* unless they are equal, in which case the quotient rounds to the literal 0.01.
RatioAbove(lo, hi, den) == (hi - lo) > (hi \div den)
\* (hi - lo) / hi < 1/den  <=>  den*(hi-lo) < hi  <=>  hi-lo < ceil(hi/den)
RatioBelow(lo, hi, den) == (hi - lo) < ((hi + den - 1) \div den)

-----------------------------------------------------------------------------
(* Latency arithmetic.                                                     *)
(*                                                                         *)
(* A latency sample is a decimal number of milliseconds, kept as an        *)
(* integer count of hundredths (45 is the text "0.45" of a ping line).     *)
(* float() turns it into an IEEE-754 double, and the percentile routines   *)
(* multiply and add doubles, where every operation rounds to 53            *)
(* significant bits (nearest, ties to even).  A double is kept by its      *)
(* exact value, as a natural number of units of 2^-75, written in limbs of *)
(* 15 bits, least significant limb first, <<>> for zero.                   *)

LimbBits == 15
Base == Pow2(LimbBits)
\* the unit 2^-75 is FixLimbs limbs below the integer part
FixLimbs == 5
\* significand width of a double
MantBits == 53

\* An operator that uses an argument several times first binds it to a
\* variable ranging over a one-element set, so that every intermediate value
\* is computed once; One(S) is the element of the one-element set S.
One(S) == CHOOSE v \in S : TRUE

Limb(a, i) == IF i <= Len(a) THEN a[i] ELSE 0

RECURSIVE BNormLen(_, _)
BNormLen(a, n) == IF n = 0 THEN <<>>
                  ELSE IF a[n] = 0 THEN BNormLen(a, n - 1) ELSE SubSeq(a, 1, n)
\* a without its leading zero limbs
BNorm(x) == One({BNormLen(a, Len(a)) : a \in {x}})

RECURSIVE BFromInt(_)
BFromInt(n) == IF n = 0 THEN <<>> ELSE <<n % Base>> \o BFromInt(n \div Base)

RECURSIVE BToInt(_)
BToInt(a) == IF a = <<>> THEN 0 ELSE a[1] + Base * BToInt(Tail(a))

RECURSIVE BAddC(_, _, _, _)
BAddC(a, b, i, c) ==
    IF i > Len(a) /\ i > Len(b) THEN (IF c = 0 THEN <<>> ELSE <<c>>)
    ELSE LET t == Limb(a, i) + Limb(b, i) + c
         IN <<t % Base>> \o BAddC(a, b, i + 1, t \div Base)
BAdd(x, y) == One({BAddC(a, b, 1, 0) : a \in {x}, b \in {y}})

RECURSIVE BSubC(_, _, _, _)
\* a - b for a >= b
BSubC(a, b, i, c) ==
    IF i > Len(a) THEN <<>>
    ELSE LET t == a[i] - Limb(b, i) - c
         IN IF t < 0 THEN <<t + Base>> \o BSubC(a, b, i + 1, 1)
            ELSE <<t>> \o BSubC(a, b, i + 1, 0)
BSub(x, y) == One({BNorm(BSubC(a, b, 1, 0)) : a \in {x}, b \in {y}})

RECURSIVE BMulSmallC(_, _, _, _)
BMulSmallC(a, m, i, c) ==
    IF i > Len(a) THEN (IF c = 0 THEN <<>> ELSE <<c>>)
    ELSE LET t == a[i] * m + c
         IN <<t % Base>> \o BMulSmallC(a, m, i + 1, t \div Base)
\* a * m for 0 <= m < 2^15
BMulSmall(x, k) == One({IF m = 0 THEN <<>> ELSE BMulSmallC(a, m, 1, 0) : a \in {x}, m \in {k}})

BShlLimbs(x, q) == One({IF a = <<>> THEN a ELSE [i \in 1..q |-> 0] \o a : a \in {x}})
BShrLimbs(x, q) == One({SubSeq(a, q + 1, Len(a)) : a \in {x}})

RECURSIVE BMulAcc(_, _, _)
BMulAcc(a, b, j) ==
    IF j > Len(b) THEN <<>>
    ELSE BAdd(BShlLimbs(BMulSmall(a, b[j]), j - 1), BMulAcc(a, b, j + 1))
BMul(x, y) == One({BMulAcc(a, b, 1) : a \in {x}, b \in {y}})

RECURSIVE BCmpFrom(_, _, _)
BCmpFrom(a, b, i) ==
    IF i = 0 THEN 0
    ELSE IF a[i] < b[i] THEN -1
    ELSE IF a[i] > b[i] THEN 1
    ELSE BCmpFrom(a, b, i - 1)
\* -1, 0, 1 as a < b, a = b, a > b
BCmp(x, y) == One({IF Len(a) < Len(b) THEN -1
                   ELSE IF Len(a) > Len(b) THEN 1
                   ELSE BCmpFrom(a, b, Len(a)) : a \in {x}, b \in {y}})

RECURSIVE BDivSmallFrom(_, _, _, _, _)
\* long division from limb i down, with remainder r and quotient limbs q so far
BDivSmallFrom(a, d, i, r, q) ==
    IF i = 0 THEN [q |-> BNorm(q), r |-> r]
    ELSE One({BDivSmallFrom(a, d, i - 1, cur % d, <<cur \div d>> \o q)
              : cur \in {r * Base + a[i]}})
\* quotient and remainder of a by d, 0 < d < 2^16
BDivSmall(x, d) == One({BDivSmallFrom(a, d, Len(a), 0, <<>>) : a \in {x}})

RECURSIVE BitLenInt(_)
BitLenInt(n) == IF n = 0 THEN 0 ELSE 1 + BitLenInt(n \div 2)
BitLen(x) == One({IF a = <<>> THEN 0
                  ELSE LimbBits * (Len(a) - 1) + BitLenInt(a[Len(a)]) : a \in {x}})

BShr(a, s) == BDivSmall(BShrLimbs(a, s \div LimbBits), Pow2(s % LimbBits)).q
BShl(a, s) == BMulSmall(BShlLimbs(a, s \div LimbBits), Pow2(s % LimbBits))

\* x rounded to MantBits significant bits, nearest, ties to even; sticky says
\* that the exact value lies strictly above x (a division left a remainder)
RoundBits(x, sticky, s) ==
    One({One({BShl(IF c > 0 \/ (c = 0 /\ (sticky \/ q[1] % 2 = 1))
                   THEN BAdd(q, <<1>>) ELSE q, s)
              : c \in {BCmp(BSub(x, BShl(q, s)), BShl(<<1>>, s - 1))}})
         : q \in {BShr(x, s)}})
RoundMant(v, sticky) ==
    One({IF len <= MantBits THEN x ELSE RoundBits(x, sticky, len - MantBits)
         : x \in {v}, len \in {BitLen(v)}})

\* the double of the integer n
Fix(n) == BShlLimbs(BFromInt(n), FixLimbs)
\* double + double, double - double (a >= b), double * double, double / int
FAdd(a, b) == RoundMant(BAdd(a, b), FALSE)
FSub(a, b) == RoundMant(BSub(a, b), FALSE)
FMul(a, b) == BShrLimbs(RoundMant(BMul(a, b), FALSE), FixLimbs)
FDivInt(a, d) == One({RoundMant(x.q, x.r # 0) : x \in {BDivSmall(a, d)}})
\* the double nearest to num/den: float("0.45") is Dbl(45, 100)
Dbl(num, den) == FDivInt(Fix(num), den)
\* int(x)
FInt(a) == BToInt(BShrLimbs(a, FixLimbs))
FLeq(a, b) == BCmp(a, b) <= 0

RECURSIVE ISqrtFrom(_, _, _, _)
\* the bits b down to stop of the integer square root of x; r holds the higher
\* bits r.a and their square r.sq, and (a + 2^b)^2 = a^2 + a * 2^(b+1) + 2^(2b)
ISqrtFrom(x, r, b, stop) ==
    IF b < stop THEN r
    ELSE One({ISqrtFrom(x, IF BCmp(c.sq, x) <= 0 THEN c ELSE r, b - 1, stop)
              : c \in {[a |-> BAdd(r.a, BShl(<<1>>, b)),
                        sq |-> BAdd(r.sq, BAdd(BShl(r.a, b + 1), BShl(<<1>>, 2 * b)))]}})
RECURSIVE ISqrtLimbs(_, _, _)
\* the integer square root of x from bit b down, one limb of bits at a time
ISqrtLimbs(x, r, b) ==
    IF b < 0 THEN r
    ELSE One({ISqrtLimbs(x, hi, b - LimbBits)
              : hi \in {ISqrtFrom(x, r, b, Max2(0, b - LimbBits + 1))}})
\* math.isqrt(x) and its square
ISqrt(x) == One({ISqrtLimbs(v, [a |-> <<>>, sq |-> <<>>], BitLen(v) \div 2) : v \in {x}})

\* the double nearest to the square root of num / den, num in units of 2^-150
\* and 0 < den < 2^15 (statistics._float_sqrt_of_frac): num is cut to a
\* quotient of 2 * MantBits + 3 bits, whose integer square root with the
\* inexact flag rounds once to MantBits bits.  The result is in units of
\* 2^-75; the cut is by whole bits, so the root must be at least 2^-20.
FSqrtFrac(num, den) ==
    One({One({One({BShl(RoundMant(r.a, x.r # 0 \/ BCmp(BShl(BShr(n, 2 * s), 2 * s), n) # 0
                                       \/ BCmp(r.sq, x.q) # 0), s)
                   : r \in {ISqrt(x.q)}})
              : x \in {BDivSmall(BShr(n, 2 * s), den)}})
         : n \in {num},
           s \in {Max2(0, (BitLen(num) - BitLenInt(den) - (2 * MantBits + 3)) \div 2)}})

\* float(time_str) of a sample given in hundredths of a millisecond
Sample(x) == Dbl(x, 100)

RECURSIVE Insert(_, _, _)
\* s with x put before the first element from position i on that is not below x
Insert(x, s, i) == IF i > Len(s) THEN Append(s, x)
                   ELSE IF x <= s[i] THEN SubSeq(s, 1, i - 1) \o <<x>> \o SubSeq(s, i, Len(s))
                   ELSE Insert(x, s, i + 1)
RECURSIVE Sorted(_)
\* sorted(data)
Sorted(data) == IF data = <<>> THEN <<>>
                ELSE One({Insert(data[1], s, 1) : s \in {Sorted(Tail(data))}})

\* (len(sorted_data) - 1) * percent / 100, percent given in tenths: 50, 90,
\* 95, 99 are ints, so the product is an int and only the division rounds;
\* 99.9 is a double, so the product rounds too
PercentIndex(n, pm) ==
    IF pm % 10 = 0 THEN Dbl((n - 1) * (pm \div 10), 100)
    ELSE FDivInt(FMul(Fix(n - 1), Dbl(pm, 10)), 100)

\* percentile(data, percent): advanced_rfc2544_test.py:136-147,
\* latency_only_test.py:51-59, frer_comparison_analysis.py:41-49
Interpolate(sorted_data, index, floor, ceil) ==
    IF ceil >= Len(sorted_data) THEN Sample(sorted_data[floor + 1])
    ELSE One({FAdd(FMul(Sample(sorted_data[floor + 1]), FSub(Fix(1), fraction)),
                   FMul(Sample(sorted_data[ceil + 1]), fraction))
              : fraction \in {FSub(index, Fix(floor))}})
Percentile(data, pm) ==
    One({One({Interpolate(sorted_data, index, FInt(index), FInt(index) + 1)
              : index \in {PercentIndex(Len(sorted_data), pm)}})
         : sorted_data \in {Sorted(data)}})

\* (variant: the lower of the two middle samples for an even count)
MedianLow(data) ==
    One({IF n % 2 = 1 THEN Sample(s[n \div 2 + 1]) ELSE Sample(s[n \div 2])
         : s \in {Sorted(data)}, n \in {Len(data)}})

\* statistics.median(data)
Median(data) ==
    One({IF n % 2 = 1 THEN Sample(s[n \div 2 + 1])
         ELSE BDivSmall(FAdd(Sample(s[n \div 2]), Sample(s[n \div 2 + 1])), 2).q
         : s \in {Sorted(data)}, n \in {Len(data)}})

-----------------------------------------------------------------------------
(* The probe: test_throughput_iperf3 returns None or a record with a       *)
(* loss_percent; run_command + json.loads either yields lost_percent or    *)
(* raises JSONDecodeError/KeyError.  A third outcome leaves the search by  *)
(* an exception nothing catches: subprocess.run raising (advanced:174 is   *)
(* outside the try), a lost_percent that is null or a string (TypeError or *)
(* ValueError at advanced:235, TypeError at comprehensive:230), or JSON    *)
(* that is not an object (TypeError at comprehensive:221).                 *)

LossPercents == {0, 5, zero_loss_threshold, FullLoss}

ProbeFailure == [success |-> FALSE, loss_percent |-> FullLoss, raised |-> FALSE]
ProbeRaised == [success |-> FALSE, loss_percent |-> FullLoss, raised |-> TRUE]
ProbeResults == {ProbeFailure, ProbeRaised} \cup
                {[success |-> TRUE, loss_percent |-> l, raised |-> FALSE] : l \in LossPercents}

NoProbe == [success |-> FALSE, loss_percent |-> 0, raised |-> FALSE]

-----------------------------------------------------------------------------
(* RFC2544Test.binary_search_throughput *)

\* (variant: the loop already ends at twice the tolerance)
AdvLoopCondTwiceTolerance(lo, hi, it) ==
    RatioAbove(lo, hi, tolerance_den \div 2) /\ it < max_iterations

\* while (max_mbps - min_mbps) / max_mbps > tolerance and iterations < max_iterations
AdvLoopCond(lo, hi, it) ==
    RatioAbove(lo, hi, tolerance_den) /\ it < max_iterations

\* if loss_percent < zero_loss_threshold
AdvAcceptable(loss) == loss < zero_loss_threshold

\* (variant: a lossy probe also records its rate as the best one)
AdvUpdateBestOnLoss(lo, hi, best, cur, result) ==
    IF ~result.success
    THEN [min |-> lo, max |-> cur, best |-> best]
    ELSE IF AdvAcceptable(result.loss_percent)
         THEN [min |-> cur, max |-> hi, best |-> cur]
         ELSE [min |-> lo, max |-> cur, best |-> cur]

\* (variant: a lossy probe does not lower max_mbps)
AdvUpdateNoShrinkOnLoss(lo, hi, best, cur, result) ==
    IF ~result.success
    THEN [min |-> lo, max |-> cur, best |-> best]
    ELSE IF AdvAcceptable(result.loss_percent)
         THEN [min |-> cur, max |-> hi, best |-> cur]
         ELSE [min |-> lo, max |-> hi, best |-> best]

\* (variant: a passing probe raises min_mbps but best_throughput is not recorded)
AdvUpdateForgetBest(lo, hi, best, cur, result) ==
    IF ~result.success
    THEN [min |-> lo, max |-> cur, best |-> best]
    ELSE IF AdvAcceptable(result.loss_percent)
         THEN [min |-> cur, max |-> hi, best |-> best]
         ELSE [min |-> lo, max |-> cur, best |-> best]

\* body of the loop after the probe returned: lines 229-245
AdvUpdate(lo, hi, best, cur, result) ==
    IF ~result.success
    THEN [min |-> lo, max |-> cur, best |-> best]
    ELSE IF AdvAcceptable(result.loss_percent)
         THEN [min |-> cur, max |-> hi, best |-> cur]
         ELSE [min |-> lo, max |-> cur, best |-> best]

-----------------------------------------------------------------------------
(* NetworkTester.test_rfc2544_throughput, one frame size *)

\* (variant: range(11))
CompLoopCondOneMore(it) == it < comp_max_iterations + 1

\* for iteration in range(10)
CompLoopCond(it) == it < comp_max_iterations

\* if loss_percent < 0.001
CompAcceptable(loss) == loss < comp_loss_threshold

\* (variant: a probe that fails or loses frames forgets the best rate)
CompUpdateResetBest(lo, hi, best, cur, result) ==
    IF ~result.success
    THEN [min |-> lo, max |-> hi, best |-> 0]
    ELSE IF CompAcceptable(result.loss_percent)
         THEN [min |-> cur, max |-> hi, best |-> cur]
         ELSE [min |-> lo, max |-> cur, best |-> 0]

\* try-block of the loop, lines 219-244: a parse error leaves everything as is
CompUpdate(lo, hi, best, cur, result) ==
    IF ~result.success
    THEN [min |-> lo, max |-> hi, best |-> best]
    ELSE IF CompAcceptable(result.loss_percent)
         THEN [min |-> cur, max |-> hi, best |-> cur]
         ELSE [min |-> lo, max |-> cur, best |-> best]

\* if (max_rate - min_rate) / max_rate < tolerance: break   (only reached
\* when the output parsed)
CompBreak(lo, hi, result) ==
    result.success /\ RatioBelow(lo, hi, comp_tolerance_den)

-----------------------------------------------------------------------------
(* Observation log shared by both searches *)

Passing(result, thr) == result.success /\ result.loss_percent < thr

LogProbe(rate, result, thr) ==
    /\ probe_count' = probe_count + 1
    /\ last_rate' = rate
    /\ last_result' = result
    /\ passed_rates' = IF Passing(result, thr) THEN passed_rates \cup {rate}
                       ELSE passed_rates
    /\ bad_rates' = IF Passing(result, thr) THEN bad_rates
                    ELSE bad_rates \cup {rate}
    /\ any_fail' = (any_fail \/ ~result.success)
    \* every probe lies between the rates of the earlier passes and the
    \* rates of the earlier losses, so a loss-versus-rate curve is monotone
    \* exactly when the new loss lies between the two recorded extremes
    /\ monotone' = (monotone /\ result.success
                    /\ loss_lo <= result.loss_percent
                    /\ result.loss_percent <= loss_hi)
    /\ loss_lo' = IF Passing(result, thr) THEN Max2(loss_lo, result.loss_percent)
                  ELSE loss_lo
    /\ loss_hi' = IF result.success /\ ~Passing(result, thr)
                  THEN Min2(loss_hi, result.loss_percent) ELSE loss_hi

adv_vars == <<min_mbps, max_mbps, best_throughput, iterations, adv_pc, adv_returned>>
comp_vars == <<min_rate, max_rate, best_rate, iteration, comp_pc>>
log_vars == <<probe_count, passed_rates, bad_rates, any_fail, monotone, loss_lo,
              loss_hi, last_rate, last_result>>

binary_search_throughput_iter ==
    /\ running = "advanced"
    /\ adv_pc = "loop"
    /\ AdvLoopCond(min_mbps, max_mbps, iterations)
    /\ \E result \in ProbeResults :
         LET current_mbps == Midpoint(min_mbps, max_mbps)
             nxt == AdvUpdate(min_mbps, max_mbps, best_throughput, current_mbps, result)
         IN /\ iterations' = iterations + 1
            /\ IF result.raised
               THEN /\ adv_pc' = "raised"         \* the exception leaves the function
                    /\ UNCHANGED <<min_mbps, max_mbps, best_throughput>>
               ELSE /\ adv_pc' = "loop"
                    /\ min_mbps' = nxt.min
                    /\ max_mbps' = nxt.max
                    /\ best_throughput' = nxt.best
            /\ LogProbe(current_mbps, result, zero_loss_threshold)
    /\ UNCHANGED <<running, adv_returned, comp_vars, b2b_vars, pcap_vars, dual_vars, main_vars, lat_vars, red_vars>>

binary_search_throughput_return ==
    /\ running = "advanced"
    /\ adv_pc = "loop"
    /\ ~AdvLoopCond(min_mbps, max_mbps, iterations)
    /\ adv_pc' = "done"
    /\ adv_returned' = best_throughput
    /\ UNCHANGED <<running, min_mbps, max_mbps, best_throughput, iterations,
                   comp_vars, log_vars, b2b_vars, pcap_vars, dual_vars, main_vars, lat_vars, red_vars>>

test_rfc2544_throughput_iter ==
    /\ running = "comprehensive"
    /\ comp_pc = "loop"
    /\ CompLoopCond(iteration)
    /\ \E result \in ProbeResults :
         LET test_rate == Midpoint(min_rate, max_rate)
             nxt == CompUpdate(min_rate, max_rate, best_rate, test_rate, result)
         IN /\ IF result.raised
               THEN /\ comp_pc' = "raised"        \* the exception leaves the function
                    /\ UNCHANGED <<min_rate, max_rate, best_rate, iteration>>
               ELSE /\ iteration' = iteration + 1
                    /\ min_rate' = nxt.min
                    /\ max_rate' = nxt.max
                    /\ best_rate' = nxt.best
                    /\ comp_pc' = IF CompBreak(nxt.min, nxt.max, result) THEN "done"
                                  ELSE "loop"
            /\ LogProbe(test_rate, result, comp_loss_threshold)
    /\ UNCHANGED <<running, adv_vars, b2b_vars, pcap_vars, dual_vars, main_vars, lat_vars, red_vars>>

test_rfc2544_throughput_exhausted ==
    /\ running = "comprehensive"
    /\ comp_pc = "loop"
    /\ ~CompLoopCond(iteration)
    /\ comp_pc' = "done"
    /\ UNCHANGED <<running, min_rate, max_rate, best_rate, iteration,
                   adv_vars, log_vars, b2b_vars, pcap_vars, dual_vars, main_vars, lat_vars, red_vars>>

-----------------------------------------------------------------------------
(* RFC2544ExtendedTest.back_to_back_test *)

\* rfc2544_extended_test.py:34  self.num_trials = 3
num_trials == 3
\* rfc2544_extended_test.py:101
test_bursts == <<100, 500, 1000, 2000, 5000, 10000>>
\* rfc2544_extended_test.py:146  if loss_rate < 1.0   (units of 0.0001 percent)
burst_loss_threshold == 10000

\* one burst probe: the try block either raises (sendp, ping timeout, float())
\* or ends with a loss_rate, which stays 100.0 when no 'packet loss' line parses
BurstLossRates == {0, 5000, burst_loss_threshold, FullLoss}
\* (parsed tells whether a 'packet loss' figure was read; it does not enter
\* the code's decision, which sees only the exception or loss_rate)
BurstOutcomes == {[raised |-> TRUE, parsed |-> FALSE, loss_rate |-> FullLoss],
                  [raised |-> FALSE, parsed |-> FALSE, loss_rate |-> FullLoss]} \cup
                 {[raised |-> FALSE, parsed |-> TRUE, loss_rate |-> l] : l \in BurstLossRates}
NoOutcome == [raised |-> FALSE, parsed |-> TRUE, loss_rate |-> 0]

\* (variant: a probe that raised counts as a burst without loss)
BurstPassesOnError(outcome) == outcome.raised \/ outcome.loss_rate < burst_loss_threshold

BurstPasses(outcome) == ~outcome.raised /\ outcome.loss_rate < burst_loss_threshold

\* (variant: the last passing size replaces the running best)
BurstBestLatest(best, burst_size) == burst_size

\* best_burst = max(best_burst, burst_size)
BurstBest(best, burst_size) == Max2(best, burst_size)

RECURSIVE SeqMin(_)
SeqMin(s) == IF Len(s) = 1 THEN s[1] ELSE Min2(s[1], SeqMin(Tail(s)))

RECURSIVE SeqSum(_)
SeqSum(s) == IF s = <<>> THEN 0 ELSE s[1] + SeqSum(Tail(s))

RECURSIVE SeqSumSq(_)
SeqSumSq(s) == IF s = <<>> THEN 0 ELSE s[1] * s[1] + SeqSumSq(Tail(s))

\* statistics.mean as the exact fraction <<numerator, denominator>>
Mean(s) == <<SeqSum(s), Len(s)>>
\* statistics.stdev squared (sample variance) as an exact fraction; 0 for one value
StdevSq(s) == IF Len(s) > 1
              THEN <<Len(s) * SeqSumSq(s) - SeqSum(s) * SeqSum(s), Len(s) * (Len(s) - 1)>>
              ELSE <<0, 1>>

\* one pass of the inner for loop, lines 104-155
back_to_back_probe ==
    /\ running = "burst"
    /\ b2b_pc = "scan"
    /\ burst_i <= Len(test_bursts)
    /\ \E outcome \in BurstOutcomes :
         LET burst_size == test_bursts[burst_i] IN
         /\ burst_probes' = burst_probes + 1
         /\ last_outcome' = outcome
         /\ IF BurstPasses(outcome)
            THEN /\ best_burst' = BurstBest(best_burst, burst_size)
                 /\ own_best' = burst_size
                 /\ burst_i' = burst_i + 1
                 /\ b2b_pc' = "scan"
            ELSE /\ b2b_pc' = "trial_end"          \* break
                 /\ UNCHANGED <<best_burst, own_best, burst_i>>
    /\ UNCHANGED <<running, trial, trials, max_burst_no_loss, avg_burst, std_burst_sq,
                   own_trials, rate_vars, pcap_vars, dual_vars, main_vars, lat_vars, red_vars>>

\* results["trials"].append(...) and the next pass of the outer loop, lines 97-102, 157-160
back_to_back_trial_end ==
    /\ running = "burst"
    /\ \/ b2b_pc = "trial_end"
       \/ b2b_pc = "scan" /\ burst_i > Len(test_bursts)
    /\ trials' = Append(trials, best_burst)
    /\ own_trials' = Append(own_trials, own_best)
    /\ trial' = trial + 1
    /\ burst_i' = 1
    /\ own_best' = 0
    /\ b2b_pc' = IF trial + 1 < num_trials THEN "scan" ELSE "final"
    /\ UNCHANGED <<running, best_burst, max_burst_no_loss, avg_burst, std_burst_sq,
                   burst_probes, last_outcome, rate_vars, pcap_vars, dual_vars, main_vars, lat_vars, red_vars>>

\* lines 162-174
back_to_back_result ==
    /\ running = "burst"
    /\ b2b_pc = "final"
    /\ IF trials # <<>>
       THEN /\ max_burst_no_loss' = SeqMin(trials)
            /\ avg_burst' = Mean(trials)
            /\ std_burst_sq' = StdevSq(trials)
       ELSE UNCHANGED <<max_burst_no_loss, avg_burst, std_burst_sq>>
    /\ b2b_pc' = "done"
    /\ UNCHANGED <<running, trial, burst_i, best_burst, trials, own_best, own_trials,
                   burst_probes, last_outcome, rate_vars, pcap_vars, dual_vars, main_vars, lat_vars, red_vars>>

-----------------------------------------------------------------------------
(* FRERTest.analyze_pcap *)

MaxPackets == 4
MaxSeq == 2

\* a captured packet: an R-TAG frame carrying seq, a packet without a Raw
\* layer, a Raw payload shorter than 8 bytes, or a payload not starting f1 c1
FrerPackets == {[kind |-> "frer", seq |-> q] : q \in 0..MaxSeq}
SkippedPackets == {[kind |-> k, seq |-> 0] : k \in {"noraw", "short", "untagged"}}
Packets == FrerPackets \cup SkippedPackets

RECURSIVE SeqsUpTo(_, _)
SeqsUpTo(S, n) ==
    IF n = 0 THEN {<<>>}
    ELSE LET shorter == SeqsUpTo(S, n - 1)
         IN shorter \cup {Append(t, x) : t \in {u \in shorter : Len(u) = n - 1}, x \in S}

\* (variant: any Raw payload of 8 bytes is read as an R-TAG)
IsTaggedAnyPayload(pkt) == pkt.kind \in {"frer", "untagged"}

\* if Raw in pkt ... if len(payload) >= 8 and payload[0:2] == b'\xf1\xc1'
IsTagged(pkt) == pkt.kind = "frer"

\* len(packets), line 195
TotalPackets(pkts) == Len(pkts)

\* ratio * 100 as the exact fraction <<numerator, denominator>>, 0 when den is 0
Percent(num, den) == IF den > 0 THEN <<num * 100, den>> ELSE <<0, 1>>

\* (variant: only a repeat of the record just before counts as a duplicate)
PcapUpdateAdjacentRepeat(dup, uniq, ooo, prev, seq) ==
    [duplicates |-> IF seq = prev THEN dup + 1 ELSE dup,
     unique_seq |-> uniq \cup {seq},
     out_of_order |-> IF seq < prev THEN ooo + 1 ELSE ooo,
     prev_seq |-> seq]

\* (variant: prev_seq follows only sequence numbers seen for the first time)
PcapUpdatePrevOnUnique(dup, uniq, ooo, prev, seq) ==
    [duplicates |-> IF seq \in uniq THEN dup + 1 ELSE dup,
     unique_seq |-> uniq \cup {seq},
     out_of_order |-> IF seq < prev THEN ooo + 1 ELSE ooo,
     prev_seq |-> IF seq \in uniq THEN prev ELSE seq]

\* the body of the try block for one R-TAG frame, lines 210-218
PcapUpdate(dup, uniq, ooo, prev, seq) ==
    [duplicates |-> IF seq \in uniq THEN dup + 1 ELSE dup,
     unique_seq |-> uniq \cup {seq},
     out_of_order |-> IF seq < prev THEN ooo + 1 ELSE ooo,
     prev_seq |-> seq]

\* lines 192-199
analyze_pcap_start ==
    /\ running = "pcap"
    /\ pcap_pc = "start"
    /\ total_packets' = TotalPackets(packets)
    /\ duplicates' = 0
    /\ unique_seq' = {}
    /\ out_of_order' = 0
    /\ prev_seq' = -1
    /\ pkt_i' = 1
    /\ pcap_pc' = "loop"
    /\ UNCHANGED <<running, packets, analysis, rate_vars, b2b_vars, dual_vars, main_vars, lat_vars, red_vars>>

\* one pass of the for loop, lines 201-220
analyze_pcap_packet ==
    /\ running = "pcap"
    /\ pcap_pc = "loop"
    /\ pkt_i <= Len(packets)
    /\ LET pkt == packets[pkt_i] IN
       IF IsTagged(pkt)
       THEN LET nxt == PcapUpdate(duplicates, unique_seq, out_of_order, prev_seq, pkt.seq)
            IN /\ duplicates' = nxt.duplicates
               /\ unique_seq' = nxt.unique_seq
               /\ out_of_order' = nxt.out_of_order
               /\ prev_seq' = nxt.prev_seq
       ELSE UNCHANGED <<duplicates, unique_seq, out_of_order, prev_seq>>
    /\ pkt_i' = pkt_i + 1
    /\ UNCHANGED <<running, packets, total_packets, pcap_pc, analysis,
                   rate_vars, b2b_vars, dual_vars, main_vars, lat_vars, red_vars>>

\* lines 222-239
analyze_pcap_result ==
    /\ running = "pcap"
    /\ pcap_pc = "loop"
    /\ pkt_i > Len(packets)
    /\ LET unique_packets == Cardinality(unique_seq) IN
       analysis' = [total_packets |-> total_packets,
                    unique_packets |-> unique_packets,
                    duplicates |-> duplicates,
                    out_of_order |-> out_of_order,
                    replication_ratio |-> Percent(duplicates, unique_packets),
                    elimination_efficiency |-> Percent(duplicates, total_packets)]
    /\ pcap_pc' = "done"
    /\ UNCHANGED <<running, packets, pkt_i, total_packets, duplicates, unique_seq,
                   out_of_order, prev_seq, rate_vars, b2b_vars, dual_vars, main_vars, lat_vars, red_vars>>

\* the counters after the for loop over pkts, lines 196-220
RECURSIVE PcapCounts(_)
PcapCounts(pkts) ==
    IF pkts = <<>>
    THEN [duplicates |-> 0, unique_seq |-> {}, out_of_order |-> 0, prev_seq |-> -1]
    ELSE LET before == PcapCounts(SubSeq(pkts, 1, Len(pkts) - 1))
             pkt == pkts[Len(pkts)]
         IN IF IsTagged(pkt)
            THEN PcapUpdate(before.duplicates, before.unique_seq, before.out_of_order,
                            before.prev_seq, pkt.seq)
            ELSE before

\* the stream without its i-th record
RemoveAt(pkts, i) == SubSeq(pkts, 1, i - 1) \o SubSeq(pkts, i + 1, Len(pkts))

NoAnalysis == [total_packets |-> 0, unique_packets |-> 0, duplicates |-> 0,
               out_of_order |-> 0, replication_ratio |-> <<0, 1>>,
               elimination_efficiency |-> <<0, 1>>]

-----------------------------------------------------------------------------
(* Latency statistics *)

MaxSamples == 4
\* the latency samples parsed from the ping output, in hundredths of a
\* millisecond: "time=0.00", "time=0.40", "time=0.45"
Latencies == {0, 40, 45}

RECURSIVE SeqMax(_)
SeqMax(s) == IF Len(s) = 1 THEN s[1] ELSE Max2(s[1], SeqMax(Tail(s)))

RECURSIVE SumSamples(_)
SumSamples(data) == IF data = <<>> THEN <<>>
                    ELSE BAdd(Sample(data[1]), SumSamples(Tail(data)))

RECURSIVE SumSquares(_)
SumSquares(data) == IF data = <<>> THEN <<>>
                    ELSE BAdd(BMul(Sample(data[1]), Sample(data[1])), SumSquares(Tail(data)))

\* statistics.mean(data): the exact mean of the doubles, rounded once
FMean(data) == FDivInt(SumSamples(data), Len(data))

\* the deviation 0.0
ZeroDeviation == <<>>
\* statistics.stdev(data) for len(data) > 1: the sample variance of the
\* doubles is computed exactly, (n * sum x^2 - (sum x)^2) / (n * (n - 1)),
\* and its square root is rounded once to a double
Stdev(data) ==
    One({IF num = <<>> THEN ZeroDeviation
         ELSE FSqrtFrac(num, Len(data) * (Len(data) - 1))
         : num \in {BSub(BMulSmall(SumSquares(data), Len(data)),
                         BMul(SumSamples(data), SumSamples(data)))}})
\* statistics.stdev(latencies) if len(latencies) > 1 else 0
StdevGuarded(data) == IF Len(data) > 1 THEN Stdev(data) ELSE ZeroDeviation
\* -1, 0, 1 as deviation a is below, equal to, above deviation b: the sign of
\* the difference a - b of the two doubles
DeviationCmp(a, b) == BCmp(a, b)

\* sorted_lat[int(len(sorted_lat) * q)] with q the double nearest num/den
NearestRank(data, num, den) ==
    One({Sample(s[FInt(FMul(Fix(Len(data)), Dbl(num, den))) + 1]) : s \in {Sorted(data)}})

NoStats == [count |-> 0]

\* the dict built by test_latency_icmp, advanced_rfc2544_test.py:115-129
AdvancedStats(data) ==
    [count |-> Len(data),
     min |-> Sample(SeqMin(data)),
     max |-> Sample(SeqMax(data)),
     avg |-> FMean(data),
     median |-> Median(data),
     stddev |-> StdevGuarded(data),
     p50 |-> Median(data),
     p90 |-> Percentile(data, 900),
     p95 |-> Percentile(data, 950),
     p99 |-> Percentile(data, 990),
     p99_9 |-> Percentile(data, 999),
     jitter |-> StdevGuarded(data)]

\* the dict built by test_latency_icmp, latency_only_test.py:61-75
LatencyOnlyStats(data) ==
    [count |-> Len(data),
     min |-> Sample(SeqMin(data)),
     max |-> Sample(SeqMax(data)),
     avg |-> FMean(data),
     median |-> Median(data),
     stddev |-> StdevGuarded(data),
     p50 |-> Percentile(data, 500),
     p90 |-> Percentile(data, 900),
     p95 |-> Percentile(data, 950),
     p99 |-> Percentile(data, 990),
     p99_9 |-> Percentile(data, 999),
     jitter |-> StdevGuarded(data)]

\* the dict built by test_rfc2544_latency, comprehensive_network_test.py:289-298
ComprehensiveStats(data) ==
    [count |-> Len(data),
     min_ms |-> Sample(SeqMin(data)),
     max_ms |-> Sample(SeqMax(data)),
     avg_ms |-> FMean(data),
     median_ms |-> Median(data),
     stdev_ms |-> StdevGuarded(data),
     percentile_99 |-> IF Len(data) > 100 THEN NearestRank(data, 99, 100)
                       ELSE Sample(SeqMax(data))]

\* the dict built by test_rfc2544_latency_detailed, quick_test.py:108-121
QuickStats(data) ==
    [count |-> Len(data),
     min_ms |-> Sample(SeqMin(data)),
     max_ms |-> Sample(SeqMax(data)),
     avg_ms |-> FMean(data),
     median_ms |-> Median(data),
     stdev_ms |-> StdevGuarded(data),
     percentile_50 |-> NearestRank(data, 50, 100),
     percentile_95 |-> NearestRank(data, 95, 100),
     percentile_99 |-> NearestRank(data, 99, 100),
     percentile_999 |-> IF Len(data) >= 1000 THEN NearestRank(data, 999, 1000)
                        ELSE Sample(Sorted(data)[Len(data)])]

\* (variant: an empty sample list yields a record of zeros)
AdvancedOutcomeZeroRecord(data) ==
    IF data = <<>>
    THEN [outcome |-> "stats",
          stats |-> [count |-> 0, min |-> <<>>, max |-> <<>>, avg |-> <<>>,
                     median |-> <<>>, stddev |-> ZeroDeviation, p50 |-> <<>>,
                     p90 |-> <<>>, p95 |-> <<>>, p99 |-> <<>>, p99_9 |-> <<>>,
                     jitter |-> ZeroDeviation]]
    ELSE [outcome |-> "stats", stats |-> AdvancedStats(data)]

\* if not latencies: return None ... return stats
AdvancedOutcome(data) ==
    IF data = <<>> THEN [outcome |-> "None", stats |-> NoStats]
    ELSE [outcome |-> "stats", stats |-> AdvancedStats(data)]

\* if not latencies: print("NO DATA"); return None ... return stats
LatencyOnlyOutcome(data) ==
    IF data = <<>> THEN [outcome |-> "None", stats |-> NoStats]
    ELSE [outcome |-> "stats", stats |-> LatencyOnlyStats(data)]

\* if latencies: results[f'frame_{frame_size}'] = {...}
ComprehensiveOutcome(data) ==
    IF data = <<>> THEN [outcome |-> "no_entry", stats |-> NoStats]
    ELSE [outcome |-> "stats", stats |-> ComprehensiveStats(data)]

\* if latencies: results[f'frame_{frame_size}'] = {...}
QuickOutcome(data) ==
    IF data = <<>> THEN [outcome |-> "no_entry", stats |-> NoStats]
    ELSE [outcome |-> "stats", stats |-> QuickStats(data)]

\* RFC2544Test.test_latency_icmp from the parsed samples on, lines 111-134
test_latency_icmp ==
    /\ running = "lat_advanced"
    /\ lat_outcome = "pending"
    /\ \E o \in {AdvancedOutcome(latencies)} :
          /\ lat_outcome' = o.outcome
          /\ lat_stats' = o.stats
    /\ UNCHANGED <<running, latencies, rate_vars, b2b_vars, pcap_vars, dual_vars, main_vars,
                   red_vars>>

\* latency_only_test.test_latency_icmp from the parsed samples on, lines 46-79
latency_only_test_latency_icmp ==
    /\ running = "lat_only"
    /\ lat_outcome = "pending"
    /\ \E o \in {LatencyOnlyOutcome(latencies)} :
          /\ lat_outcome' = o.outcome
          /\ lat_stats' = o.stats
    /\ UNCHANGED <<running, latencies, rate_vars, b2b_vars, pcap_vars, dual_vars, main_vars,
                   red_vars>>

\* NetworkTester.test_rfc2544_latency, one frame size, lines 288-298
test_rfc2544_latency ==
    /\ running = "lat_comprehensive"
    /\ lat_outcome = "pending"
    /\ \E o \in {ComprehensiveOutcome(latencies)} :
          /\ lat_outcome' = o.outcome
          /\ lat_stats' = o.stats
    /\ UNCHANGED <<running, latencies, rate_vars, b2b_vars, pcap_vars, dual_vars, main_vars,
                   red_vars>>

\* test_rfc2544_latency_detailed of quick_test.py, one frame size, lines 107-121
test_rfc2544_latency_detailed ==
    /\ running = "lat_quick"
    /\ lat_outcome = "pending"
    /\ \E o \in {QuickOutcome(latencies)} :
          /\ lat_outcome' = o.outcome
          /\ lat_stats' = o.stats
    /\ UNCHANGED <<running, latencies, rate_vars, b2b_vars, pcap_vars, dual_vars, main_vars,
                   red_vars>>

-----------------------------------------------------------------------------
(* frer_comparison_analysis.py: calculate_frer_latencies *)

MaxPath == 3
\* simulate_path_latencies(1000), line 76: main() draws many samples per path,
\* the model two to MaxPath
NumSamples == 2..MaxPath
\* max(0.15, random.gauss(...)), lines 24 and 28: no simulated sample is below
\* 0.15 ms (hundredths of a millisecond)
latency_floor == 15
\* the samples simulate_path_latencies draws
PathLatencies == {latency_floor, 45}
\* the two lists simulate_path_latencies(num_samples) can return, lines 19-31:
\* num_samples samples each
simulate_path_latencies(num_samples) ==
    [path1 : {s \in SeqsUpTo(PathLatencies, num_samples) : Len(s) = num_samples},
     path2 : {s \in SeqsUpTo(PathLatencies, num_samples) : Len(s) = num_samples}]
\* the samples of a list handed to calculate_frer_latencies by a caller
ArgLatencies == {0, 45}

\* (variant: the sample of the first path is selected)
ZipFirst(p1, p2) == [i \in 1..Min2(Len(p1), Len(p2)) |-> p1[i]]

\* [min(p1, p2) for p1, p2 in zip(path1, path2)]: zip stops at the shorter input
ZipMin(p1, p2) == [i \in 1..Min2(Len(p1), Len(p2)) |-> Min2(p1[i], p2[i])]

\* called by main() on the simulated paths (line 79), or by a caller with any
\* two lists
calculate_frer_latencies ==
    /\ running \in {"dual", "select"}
    /\ dual_pc = "start"
    /\ frer_latencies' = ZipMin(path1, path2)
    /\ dual_outcome' = "selected"
    /\ dual_pc' = "done"
    /\ UNCHANGED <<running, path1, path2, rate_vars, b2b_vars, pcap_vars, main_vars, lat_vars, red_vars>>

\* the dict built by calculate_stats, lines 51-65 (no guard on stdev)
CalculateStatsRecord(data) ==
    [count |-> Len(data),
     min |-> Sample(SeqMin(data)),
     max |-> Sample(SeqMax(data)),
     avg |-> FMean(data),
     median |-> Median(data),
     stddev |-> Stdev(data),
     p50 |-> Percentile(data, 500),
     p90 |-> Percentile(data, 900),
     p95 |-> Percentile(data, 950),
     p99 |-> Percentile(data, 990),
     p99_9 |-> Percentile(data, 999),
     jitter |-> Stdev(data)]

\* calculate_stats(latencies, label): min([]) raises ValueError, and
\* statistics.stdev of fewer than two values raises StatisticsError
calculate_stats(data) ==
    IF data = <<>> THEN [outcome |-> "ValueError", stats |-> NoStats]
    ELSE IF Len(data) < 2 THEN [outcome |-> "StatisticsError", stats |-> NoStats]
    ELSE [outcome |-> "stats", stats |-> CalculateStatsRecord(data)]

\* ((ref - sel) / ref) * 100 for ref # 0, kept as the pair it is computed
\* from and its sign: it is 0 exactly when sel = ref
Improvement(ref, sel, cmp) == [pct_sign |-> cmp, ref |-> ref, sel |-> sel]
NoImprovement == [avg |-> Improvement(<<>>, <<>>, 0), p99 |-> Improvement(<<>>, <<>>, 0),
                  jitter |-> Improvement(ZeroDeviation, ZeroDeviation, 0)]

\* calculate_stats(latencies, label) called on any list
call_calculate_stats ==
    /\ running = "lat_calculate_stats"
    /\ lat_outcome = "pending"
    /\ \E o \in {calculate_stats(latencies)} :
          /\ lat_outcome' = o.outcome
          /\ lat_stats' = o.stats
    /\ UNCHANGED <<running, latencies, rate_vars, b2b_vars, pcap_vars, dual_vars, main_vars,
                   red_vars>>

\* main(), lines 82-84
main_calculate_stats ==
    /\ running = "dual"
    /\ dual_pc = "done"
    /\ main_pc = "stats"
    /\ LET s1 == calculate_stats(path1)
           s2 == calculate_stats(path2)
           sf == calculate_stats(frer_latencies)
       IN IF s1.outcome # "stats"
          THEN /\ main_outcome' = s1.outcome
               /\ main_pc' = "raised"
               /\ UNCHANGED <<stats_path1, stats_path2, stats_frer>>
          ELSE IF s2.outcome # "stats"
          THEN /\ main_outcome' = s2.outcome
               /\ main_pc' = "raised"
               /\ stats_path1' = s1.stats
               /\ UNCHANGED <<stats_path2, stats_frer>>
          ELSE IF sf.outcome # "stats"
          THEN /\ main_outcome' = sf.outcome
               /\ main_pc' = "raised"
               /\ stats_path1' = s1.stats
               /\ stats_path2' = s2.stats
               /\ UNCHANGED stats_frer
          ELSE /\ main_outcome' = "pending"
               /\ main_pc' = "improvement"
               /\ stats_path1' = s1.stats
               /\ stats_path2' = s2.stats
               /\ stats_frer' = sf.stats
    /\ UNCHANGED <<running, improvement, dual_vars, rate_vars, b2b_vars, pcap_vars, lat_vars, red_vars>>

\* main(), lines 87-89: three unguarded divisions, in this order
main_improvements ==
    /\ running = "dual"
    /\ main_pc = "improvement"
    /\ IF stats_path1.avg = <<>> \/ stats_path1.p99 = <<>>
          \/ stats_path1.jitter = ZeroDeviation
       THEN /\ main_outcome' = "ZeroDivisionError"
            /\ main_pc' = "raised"
            /\ UNCHANGED improvement
       ELSE /\ improvement' =
                 [avg |-> Improvement(stats_path1.avg, stats_frer.avg,
                                      BCmp(stats_path1.avg, stats_frer.avg)),
                  p99 |-> Improvement(stats_path1.p99, stats_frer.p99,
                                      BCmp(stats_path1.p99, stats_frer.p99)),
                  jitter |-> Improvement(stats_path1.jitter, stats_frer.jitter,
                                         DeviationCmp(stats_path1.jitter, stats_frer.jitter))]
            /\ main_outcome' = "report"
            /\ main_pc' = "done"
    /\ UNCHANGED <<running, stats_path1, stats_path2, stats_frer, dual_vars,
                   rate_vars, b2b_vars, pcap_vars, lat_vars, red_vars>>

-----------------------------------------------------------------------------

(***************************************************************************)
(* FRERTest: sending replicated frames and the path redundancy test        *)
(* (frer_reliability_test.py).  An interface is its name, "None" for       *)
(* Python's None.  sendp and get_if_hwaddr touch the network: each is a    *)
(* choice between returning and raising.                                   *)
(***************************************************************************)
MaxCount == 6

FrameOutcomes == [create : {"ok", "raise"}, primary : {"ok", "raise"},
                  secondary : {"ok", "raise"}]
\* the results dict, lines 252-256: <<>> for None, <<stats>> once a call has returned
NoResults == [both_paths |-> <<>>, primary_only |-> <<>>, secondary_only |-> <<>>]

\* (variant: the counter advances only for a frame that went out on the primary path)
SeqAfterFrameIfSent(seq, outcome) ==
    IF outcome.create = "ok" /\ outcome.primary = "ok" THEN seq + 1 ELSE seq

\* self.sequence_number += 1, line 88: before the packet is built or sent
SeqAfterFrame(seq, outcome) == seq + 1

\* the two sendp calls of one frame, lines 93-104: the copies of pkt that went out;
\* the secondary copy is sent only after the primary sendp returned
FrameCopies(seq_num, outcome, secondary) ==
    IF outcome.primary = "raise" THEN {}
    ELSE {[seq |-> seq_num, path |-> "primary"]}
         \cup (IF secondary # "None" /\ outcome.secondary = "ok"
               THEN {[seq |-> seq_num, path |-> "secondary"]} ELSE {})

\* the stats dict of send_replicated_frames, lines 119-126 (without the clock's fields)
SendStats(n) ==
    [count |-> n, sent_primary |-> sent_primary, sent_secondary |-> sent_secondary,
     errors |-> errors]

\* one iteration of the for loop of send_replicated_frames, lines 86-114;
\* create_frer_packet (line 91) is outside the try, so when it raises the
\* exception leaves send_replicated_frames and test_path_redundancy
send_replicated_frames ==
    /\ running = "redundancy"
    /\ red_pc \in {"test1", "test2", "test3"}
    /\ frame_i < count \div 3
    /\ \E outcome \in FrameOutcomes :
        LET seq_num == sequence_number IN
        /\ sequence_number' = SeqAfterFrame(sequence_number, outcome)
        /\ assigned' = Append(assigned, seq_num)
        /\ IF outcome.create = "raise"
           THEN /\ red_pc' = "raised"
                /\ UNCHANGED <<frame_i, sent_primary, sent_secondary, errors, sent>>
           ELSE /\ red_pc' = red_pc
                /\ frame_i' = frame_i + 1
                /\ sent' = sent \cup FrameCopies(seq_num, outcome, secondary_iface)
                /\ sent_primary' = sent_primary + (IF outcome.primary = "ok" THEN 1 ELSE 0)
                /\ sent_secondary' = sent_secondary +
                       (IF [seq |-> seq_num, path |-> "secondary"]
                               \in FrameCopies(seq_num, outcome, secondary_iface)
                        THEN 1 ELSE 0)
                /\ errors' = errors + (IF outcome.primary = "raise" THEN 1 ELSE 0)
    /\ UNCHANGED <<running, primary_iface, secondary_iface, count, old_primary,
                   old_secondary, results, call_start, primary_iface_0, secondary_iface_0,
                   rate_vars, b2b_vars, pcap_vars, dual_vars, main_vars, lat_vars>>

\* test_path_redundancy lines 261-268: the first call has returned; the
\* secondary interface is saved and cleared and the second call starts
test_path_redundancy_primary_only ==
    /\ running = "redundancy"
    /\ red_pc = "test1"
    /\ frame_i = count \div 3
    /\ results' = [results EXCEPT !.both_paths = <<SendStats(count \div 3)>>]
    /\ old_secondary' = secondary_iface
    /\ secondary_iface' = "None"
    /\ red_pc' = "test2"
    /\ frame_i' = 0
    /\ sent_primary' = 0
    /\ sent_secondary' = 0
    /\ errors' = 0
    /\ call_start' = sequence_number
    /\ UNCHANGED <<running, primary_iface, sequence_number, count, old_primary, sent,
                   assigned, primary_iface_0, secondary_iface_0,
                   rate_vars, b2b_vars, pcap_vars, dual_vars, main_vars, lat_vars>>

\* test_path_redundancy lines 269-277: the second call has returned; the
\* secondary interface is restored, then becomes the primary one for the third call
test_path_redundancy_secondary_only ==
    /\ running = "redundancy"
    /\ red_pc = "test2"
    /\ frame_i = count \div 3
    /\ results' = [results EXCEPT !.primary_only = <<SendStats(count \div 3)>>]
    /\ old_primary' = primary_iface
    /\ primary_iface' = old_secondary
    /\ secondary_iface' = "None"
    /\ red_pc' = "test3"
    /\ frame_i' = 0
    /\ sent_primary' = 0
    /\ sent_secondary' = 0
    /\ errors' = 0
    /\ call_start' = sequence_number
    /\ UNCHANGED <<running, sequence_number, count, old_secondary, sent, assigned,
                   primary_iface_0, secondary_iface_0,
                   rate_vars, b2b_vars, pcap_vars, dual_vars, main_vars, lat_vars>>

\* test_path_redundancy lines 278-282: the third call has returned; both
\* interfaces are restored and the results are returned
test_path_redundancy_return ==
    /\ running = "redundancy"
    /\ red_pc = "test3"
    /\ frame_i = count \div 3
    /\ results' = [results EXCEPT !.secondary_only = <<SendStats(count \div 3)>>]
    /\ primary_iface' = old_primary
    /\ secondary_iface' = old_secondary
    /\ red_pc' = "returned"
    /\ UNCHANGED <<running, sequence_number, count, frame_i, old_primary, old_secondary,
                   sent_primary, sent_secondary, errors, sent, assigned, call_start,
                   primary_iface_0, secondary_iface_0,
                   rate_vars, b2b_vars, pcap_vars, dual_vars, main_vars, lat_vars>>

StatRoutines == {"lat_advanced", "lat_only", "lat_comprehensive", "lat_quick",
                 "lat_calculate_stats"}
Routines == {"advanced", "comprehensive", "burst", "pcap", "dual", "select", "redundancy"}
                \cup StatRoutines

Init ==
    /\ running \in Routines
    /\ min_mbps = min_mbps_0 * Mbps
    /\ max_mbps = max_mbps_0 * Mbps
    /\ best_throughput = 0
    /\ iterations = 0
    /\ adv_pc = "loop"
    /\ adv_returned = 0
    /\ min_rate = min_rate_0 * Mbps
    /\ max_rate = max_rate_0 * Mbps
    /\ best_rate = 0
    /\ iteration = 0
    /\ comp_pc = "loop"
    /\ probe_count = 0
    /\ passed_rates = {}
    /\ bad_rates = {}
    /\ any_fail = FALSE
    /\ monotone = TRUE
    /\ loss_lo = 0
    /\ loss_hi = FullLoss
    /\ last_rate = 0
    /\ last_result = NoProbe
    /\ trial = 0
    /\ burst_i = 1
    /\ best_burst = 0
    /\ trials = <<>>
    /\ b2b_pc = "scan"
    /\ max_burst_no_loss = 0
    /\ avg_burst = <<0, 1>>
    /\ std_burst_sq = <<0, 1>>
    /\ own_best = 0
    /\ own_trials = <<>>
    /\ burst_probes = 0
    /\ last_outcome = NoOutcome
    /\ packets \in (IF running = "pcap" THEN SeqsUpTo(Packets, MaxPackets) ELSE {<<>>})
    /\ pkt_i = 1
    /\ total_packets = 0
    /\ duplicates = 0
    /\ unique_seq = {}
    /\ out_of_order = 0
    /\ prev_seq = -1
    /\ pcap_pc = "start"
    /\ analysis = NoAnalysis
    /\ \E paths \in (IF running = "dual"
                      THEN UNION {simulate_path_latencies(n) : n \in NumSamples}
                      ELSE IF running = "select"
                      THEN [path1 : SeqsUpTo(ArgLatencies, MaxPath),
                            path2 : SeqsUpTo(ArgLatencies, MaxPath)]
                      ELSE {[path1 |-> <<>>, path2 |-> <<>>]}) :
          /\ path1 = paths.path1
          /\ path2 = paths.path2
    /\ frer_latencies = <<>>
    /\ dual_pc = "start"
    /\ dual_outcome = "none"
    /\ main_pc = "stats"
    /\ stats_path1 = NoStats
    /\ stats_path2 = NoStats
    /\ stats_frer = NoStats
    /\ improvement = NoImprovement
    /\ main_outcome = "pending"
    /\ latencies \in (IF running \in StatRoutines THEN SeqsUpTo(Latencies, MaxSamples)
                      ELSE {<<>>})
    /\ lat_stats = NoStats
    /\ lat_outcome = "pending"
    /\ primary_iface = "enp2s0"
    /\ secondary_iface \in (IF running = "redundancy" THEN {"enp11s0", "None"}
                            ELSE {"enp11s0"})
    /\ sequence_number = 0
    /\ red_pc = "test1"
    /\ count \in (IF running = "redundancy" THEN 0..MaxCount ELSE {0})
    /\ frame_i = 0
    /\ old_primary = "None"
    /\ old_secondary = "None"
    /\ sent_primary = 0
    /\ sent_secondary = 0
    /\ errors = 0
    /\ results = NoResults
    /\ sent = {}
    /\ assigned = <<>>
    /\ call_start = 0
    /\ primary_iface_0 = primary_iface
    /\ secondary_iface_0 = secondary_iface

Next ==
    \/ binary_search_throughput_iter
    \/ binary_search_throughput_return
    \/ test_rfc2544_throughput_iter
    \/ test_rfc2544_throughput_exhausted
    \/ back_to_back_probe
    \/ back_to_back_trial_end
    \/ back_to_back_result
    \/ analyze_pcap_start
    \/ analyze_pcap_packet
    \/ analyze_pcap_result
    \/ calculate_frer_latencies
    \/ main_calculate_stats
    \/ main_improvements
    \/ test_latency_icmp
    \/ latency_only_test_latency_icmp
    \/ test_rfc2544_latency
    \/ test_rfc2544_latency_detailed
    \/ call_calculate_stats
    \/ send_replicated_frames
    \/ test_path_redundancy_primary_only
    \/ test_path_redundancy_secondary_only
    \/ test_path_redundancy_return

Spec == Init /\ [][Next]_vars

\* the steps of the loops: searches, burst trials, capture analysis, selection
LoopNext ==
    \/ binary_search_throughput_iter
    \/ binary_search_throughput_return
    \/ test_rfc2544_throughput_iter
    \/ test_rfc2544_throughput_exhausted
    \/ back_to_back_probe
    \/ back_to_back_trial_end
    \/ back_to_back_result
    \/ analyze_pcap_start
    \/ analyze_pcap_packet
    \/ analyze_pcap_result
    \/ calculate_frer_latencies

\* the straight-line scripts run their loops to completion once started
FairSpec == Spec /\ WF_vars(LoopNext)

-----------------------------------------------------------------------------
(* Properties *)

RECURSIVE CeilLog2From(_, _, _)
\* the least k >= k0 with 2^k * den >= num, i.e. ceil(log2(num/den)) for num >= den
CeilLog2From(num, den, k0) ==
    IF Pow2(k0) * den >= num THEN k0 ELSE CeilLog2From(num, den, k0 + 1)
CeilLog2(num, den) == CeilLog2From(num, den, 0)

AdvRunning == running = "advanced"
CompRunning == running = "comprehensive"

\* C1: the best rate of a rate search (and the rate it returns) never exceeds
\* a rate that was probed in the run and reported loss >= threshold or failed,
\* whatever the order of the probe outcomes.
C1_BestNeverExceedsBadRate ==
    \A r \in bad_rates :
        /\ AdvRunning => (best_throughput <= r /\ adv_returned <= r)
        /\ CompRunning => best_rate <= r

\* C2 (as stated): the returned rate is always a rate at which a probe of the
\* run succeeded with loss below the threshold.
C2_ReturnedRateWasObservedPassing ==
    (AdvRunning /\ adv_pc = "done") => adv_returned \in passed_rates

\* C2 (amended): the returned rate is 0 when no probe of the run passed, and
\* otherwise a rate at which a probe of the run succeeded with loss below the
\* threshold.
C2_ReturnedRateIsZeroOrObservedPassing ==
    /\ (AdvRunning /\ adv_pc = "done") =>
          IF passed_rates = {} THEN adv_returned = 0 ELSE adv_returned \in passed_rates
    /\ (CompRunning /\ comp_pc = "done") =>
          IF passed_rates = {} THEN best_rate = 0 ELSE best_rate \in passed_rates

C2_Witness ==
    /\ AdvRunning /\ adv_pc = "done"
    /\ adv_returned \in passed_rates
    /\ bad_rates # {}

\* C3: after all trials max_burst_no_loss is the minimum over the trials of
\* each trial's own largest passing burst size.
C3_MaxBurstIsMinOfOwnTrialResults ==
    (running = "burst" /\ b2b_pc = "done") => max_burst_no_loss = SeqMin(own_trials)

\* C4: the value recorded for a trial is the largest candidate that passed in
\* that same trial before its first failing candidate (0 when the first
\* candidate fails).
C4_TrialRecordIsOwnLargestPass ==
    \A k \in 1..Len(trials) : trials[k] = own_trials[k]

\* C5: the result of analyze_pcap satisfies unique + duplicates = total, also
\* for streams with malformed or untagged records.
C5_UniquePlusDuplicatesIsTotal ==
    (running = "pcap" /\ pcap_pc = "done") =>
        analysis.unique_packets + analysis.duplicates = analysis.total_packets

\* C6: an iteration whose probe fails sets high to the probed rate and leaves
\* low and best_known unchanged.
C6_FailedProbeShrinksHigh ==
    [][(probe_count' = probe_count + 1 /\ ~last_result'.success) =>
          /\ AdvRunning => /\ max_mbps' = last_rate'
                           /\ min_mbps' = min_mbps
                           /\ best_throughput' = best_throughput
          /\ CompRunning => /\ max_rate' = last_rate'
                            /\ min_rate' = min_rate
                            /\ best_rate' = best_rate]_vars

\* C7 (as stated): low <= best_known <= high in every state of a run.
C7_BestBetweenLowAndHigh ==
    /\ AdvRunning => (min_mbps <= best_throughput /\ best_throughput <= max_mbps)
    /\ CompRunning => (min_rate <= best_rate /\ best_rate <= max_rate)

\* C7 (amended): best_known <= high in every state of a run, and
\* low <= best_known from the first passing probe on; until then best_known
\* is 0, below low.
C7_BestBelowHighAndAtLowOncePassed ==
    /\ AdvRunning =>
          /\ best_throughput <= max_mbps
          /\ IF passed_rates = {} THEN best_throughput = 0
             ELSE min_mbps <= best_throughput
    /\ CompRunning =>
          /\ best_rate <= max_rate
          /\ IF passed_rates = {} THEN best_rate = 0
             ELSE min_rate <= best_rate

C7_Witness ==
    /\ AdvRunning
    /\ passed_rates # {} /\ bad_rates # {}
    /\ min_mbps = best_throughput
    /\ best_throughput < max_mbps

\* C8 (as stated): with a monotone probe and no failures the search stops
\* within min(ceil(log2((high0-low0)/(high0*tolerance))), max_iterations)
\* iterations.
C8_StopsWithinLog2OfInitialHigh ==
    /\ (AdvRunning /\ adv_pc = "done" /\ monotone) =>
          iterations <= Min2(CeilLog2((max_mbps_0 - min_mbps_0) * tolerance_den, max_mbps_0),
                             max_iterations)
    /\ (CompRunning /\ comp_pc = "done" /\ monotone) =>
          iteration <= Min2(CeilLog2((max_rate_0 - min_rate_0) * comp_tolerance_den, max_rate_0),
                            comp_max_iterations)

\* C8 (amended): with a monotone probe and no failures the search stops
\* within min(ceil(log2((high0-low0)/(low0*tolerance))), max_iterations)
\* iterations.
C8_StopsWithinLog2OfInitialLow ==
    /\ (AdvRunning /\ adv_pc = "done" /\ monotone) =>
          iterations <= Min2(CeilLog2((max_mbps_0 - min_mbps_0) * tolerance_den, min_mbps_0),
                             max_iterations)
    /\ (CompRunning /\ comp_pc = "done" /\ monotone) =>
          iteration <= Min2(CeilLog2((max_rate_0 - min_rate_0) * comp_tolerance_den, min_rate_0),
                            comp_max_iterations)

\* a run on a probe that reports loss at every rate, stopped by the window test
C8_Witness ==
    /\ AdvRunning /\ adv_pc = "done" /\ monotone
    /\ passed_rates = {}
    /\ iterations > 7
    /\ iterations < max_iterations

Terminated ==
    /\ AdvRunning => adv_pc = "done"
    /\ CompRunning => comp_pc = "done"
    /\ running = "burst" => b2b_pc = "done"

ProbesBounded ==
    /\ AdvRunning => probe_count <= max_iterations
    /\ CompRunning => probe_count <= comp_max_iterations
    /\ running = "burst" => burst_probes <= num_trials * Len(test_bursts)

\* C9: every search returns, whatever the probe outcomes, after at most
\* max_iterations probes (rate search, failed probes included) or
\* trials x candidates probes (burst search).
C9_SearchesTerminateWithinBudget ==
    []ProbesBounded /\ <>Terminated

\* a rate search that used its whole budget because of failed probes
C9_Witness ==
    /\ CompRunning /\ comp_pc = "done"
    /\ probe_count = comp_max_iterations
    /\ any_fail

\* C10: sequences of unequal length end in LengthMismatch and no selected
\* series is produced.
C10_UnequalLengthsAreRejected ==
    (running \in {"dual", "select"} /\ dual_pc = "done" /\ Len(path1) # Len(path2)) =>
        (dual_outcome = "LengthMismatch" /\ frer_latencies = <<>>)

\* C18: within one rate-search run the best known rate never decreases from
\* one iteration to the next (best_throughput of binary_search_throughput and
\* best_rate of test_rfc2544_throughput).
C18_BestNeverDecreases ==
    [][best_throughput' >= best_throughput /\ best_rate' >= best_rate]_vars

\* a search that has recorded a best rate and then met a probe that did not pass
C18_Witness ==
    \/ AdvRunning /\ iterations >= 2 /\ best_throughput > 0
          /\ ~Passing(last_result, zero_loss_threshold)
    \/ CompRunning /\ iteration >= 2 /\ best_rate > 0
          /\ ~Passing(last_result, comp_loss_threshold)

\* C16: a malformed or untagged record anywhere in the stream does not abort
\* analyze_pcap and does not change unique, duplicates, out_of_order or
\* prev_seq: the analysis ends with the counts of the stream with that record
\* removed.
C16_SkippedRecordLeavesCountsAlone ==
    (running = "pcap" /\ pcap_pc = "done") =>
        \A i \in 1..Len(packets) :
            packets[i] \in SkippedPackets =>
                LET without == PcapCounts(RemoveAt(packets, i))
                IN /\ analysis.unique_packets = Cardinality(without.unique_seq)
                   /\ analysis.duplicates = without.duplicates
                   /\ analysis.out_of_order = without.out_of_order
                   /\ prev_seq = without.prev_seq
                   /\ unique_seq = without.unique_seq

\* an analysis that finished on a stream with an untagged record between two
\* copies of a frame and a reordered frame
C16_Witness ==
    /\ running = "pcap" /\ pcap_pc = "done"
    /\ \E i \in 2..(Len(packets) - 1) : packets[i].kind = "untagged"
    /\ analysis.duplicates > 0
    /\ analysis.out_of_order > 0

FracEq(a, b) == a[1] * b[2] = b[1] * a[2]

\* C20: replication_ratio is duplicates / unique * 100 (0 when unique is 0) and
\* elimination_efficiency is duplicates / total * 100 with total = unique +
\* duplicates (0 when total is 0).
C20_RatiosOverUniqueAndTotal ==
    (running = "pcap" /\ pcap_pc = "done") =>
        /\ FracEq(analysis.replication_ratio,
                  Percent(analysis.duplicates, analysis.unique_packets))
        /\ FracEq(analysis.elimination_efficiency,
                  Percent(analysis.duplicates,
                          analysis.unique_packets + analysis.duplicates))

\* C17: in the burst search a probe that raises, or whose output holds no
\* parsable loss figure, is treated as 100% loss: it is never counted as a
\* passing burst (best_burst keeps its value and the scan of the trial stops),
\* the remaining trials still run, and the result record is returned.
C17_FailedBurstProbeIsFullLoss ==
    /\ [][(burst_probes' = burst_probes + 1
            /\ (last_outcome'.raised \/ ~last_outcome'.parsed))
           => (best_burst' = best_burst /\ trial' = trial /\ b2b_pc' = "trial_end")]_vars
    /\ []((running = "burst" /\ b2b_pc = "done") => Len(trials) = num_trials)
    /\ ((running = "burst") ~> (b2b_pc = "done"))

\* a finished burst search whose last probe raised or did not parse, after an
\* earlier probe of the run had passed
C17_Witness ==
    /\ running = "burst" /\ b2b_pc = "done"
    /\ burst_probes > 0
    /\ last_outcome.raised \/ ~last_outcome.parsed
    /\ Len(trials) = num_trials
    /\ trials[1] < best_burst

\* the routine has produced its statistics record
LatStats(routine) == running = routine /\ lat_outcome = "stats"
MainFinished == running = "dual" /\ main_pc \in {"done", "raised"}

\* C11: for exactly one latency sample every statistics computation returns
\* a record with stddev = 0 and jitter = 0 instead of failing: test_latency_icmp
\* of both scripts, and calculate_stats, which the dual-path comparison runs
\* on path1, path2 and the selected series.
C11_SingleSampleHasZeroDeviation ==
    \A routine \in {"lat_advanced", "lat_only", "lat_calculate_stats"} :
        (running = routine /\ lat_outcome # "pending" /\ Len(latencies) = 1) =>
            /\ lat_outcome = "stats"
            /\ lat_stats.stddev = ZeroDeviation
            /\ lat_stats.jitter = ZeroDeviation

\* the three statistics records of main() exist
StatsComputed == MainFinished /\ main_outcome \notin {"ValueError", "StatisticsError"}

\* C12: each improvement percentage (avg, p99, jitter) is 0 whenever the path1
\* statistic it is relative to is 0; the comparison never ends in a division
\* fault.
C12_ZeroReferenceGivesZeroImprovement ==
    StatsComputed =>
        /\ main_outcome = "report"
        /\ stats_path1.avg = <<>> => improvement.avg.pct_sign = 0
        /\ stats_path1.p99 = <<>> => improvement.p99.pct_sign = 0
        /\ stats_path1.jitter = ZeroDeviation => improvement.jitter.pct_sign = 0

Monotone(st) ==
    /\ FLeq(st.min, st.p50)
    /\ FLeq(st.p50, st.p90)
    /\ FLeq(st.p90, st.p95)
    /\ FLeq(st.p95, st.p99)
    /\ FLeq(st.p99, st.p99_9)
    /\ FLeq(st.p99_9, st.max)

\* C13: for every non-empty sample set the reported percentiles are ordered:
\* min <= p50 <= p90 <= p95 <= p99 <= p99.9 <= max.
C13_PercentilesAreMonotone ==
    /\ (LatStats("lat_advanced") \/ LatStats("lat_only") \/ LatStats("lat_calculate_stats"))
          => Monotone(lat_stats)
    /\ running = "dual" =>
          \A st \in {stats_path1, stats_path2, stats_frer} : st # NoStats => Monotone(st)

Interpolated(st, data) ==
    /\ st.p50 = Percentile(data, 500)
    /\ st.p90 = Percentile(data, 900)
    /\ st.p95 = Percentile(data, 950)
    /\ st.p99 = Percentile(data, 990)
    /\ st.p99_9 = Percentile(data, 999)

\* C14: every percentile the system reports equals the interpolated value
\* sorted[floor] * (1 - frac) + sorted[ceil] * frac at index (n - 1) * p / 100
\* (sorted[floor] when ceil >= n); no reported percentile is a nearest-rank one.
C14_ReportedPercentilesAreInterpolated ==
    /\ (LatStats("lat_advanced") \/ LatStats("lat_only") \/ LatStats("lat_calculate_stats"))
          => Interpolated(lat_stats, latencies)
    /\ LatStats("lat_comprehensive") =>
          lat_stats.percentile_99 = Percentile(latencies, 990)
    /\ LatStats("lat_quick") =>
          /\ lat_stats.percentile_50 = Percentile(latencies, 500)
          /\ lat_stats.percentile_95 = Percentile(latencies, 950)
          /\ lat_stats.percentile_99 = Percentile(latencies, 990)
          /\ lat_stats.percentile_999 = Percentile(latencies, 999)
    /\ running = "dual" =>
          /\ stats_path1 # NoStats => Interpolated(stats_path1, path1)
          /\ stats_path2 # NoStats => Interpolated(stats_path2, path2)
          /\ stats_frer # NoStats => Interpolated(stats_frer, frer_latencies)

\* C15: an empty sample sequence ends in an explicit failure outcome (None
\* from test_latency_icmp, ValueError from calculate_stats) and never in a
\* statistics record.
C15_EmptySamplesFail ==
    \A routine \in StatRoutines :
         (running = routine /\ lat_outcome # "pending" /\ latencies = <<>>) =>
            /\ lat_outcome # "stats"
            /\ lat_stats = NoStats
            /\ routine \in {"lat_advanced", "lat_only"} => lat_outcome = "None"
            /\ routine = "lat_calculate_stats" => lat_outcome = "ValueError"

\* test_latency_icmp has returned on a ping output without a single sample
C15_Witness ==
    /\ running = "lat_advanced"
    /\ latencies = <<>>
    /\ lat_outcome = "None"

\* C19: comparing any non-empty path against itself yields an improvement of
\* exactly 0 for avg, p99 and jitter.
C19_SelfComparisonHasZeroImprovement ==
    (MainFinished /\ path1 # <<>> /\ path2 = path1) =>
        /\ main_outcome = "report"
        /\ improvement.avg.pct_sign = 0
        /\ improvement.p99.pct_sign = 0
        /\ improvement.jitter.pct_sign = 0

\* a record with an R-TAG, and the sequence numbers of those records in order
WellFormed(pkt) == pkt \in FrerPackets
WellFormedSeqs(pkts) ==
    LET w == SelectSeq(pkts, WellFormed) IN [i \in 1..Len(w) |-> w[i].seq]

\* C21: analyze_pcap counts each well-formed record exactly once, as unique
\* when its sequence number has not occurred earlier and as duplicate
\* otherwise: unique is the number of distinct sequence numbers and duplicates
\* the number of well-formed records minus unique.
C21_EachRecordCountedOnce ==
    (running = "pcap" /\ pcap_pc = "done") =>
        LET w == WellFormedSeqs(packets) IN
        /\ analysis.unique_packets = Cardinality({w[i] : i \in 1..Len(w)})
        /\ analysis.duplicates = Len(w) - analysis.unique_packets
        /\ analysis.duplicates =
             Cardinality({i \in 1..Len(w) : \E j \in 1..(i - 1) : w[j] = w[i]})

\* a finished analysis of a stream in which one sequence number came three times
C21_Witness ==
    /\ running = "pcap" /\ pcap_pc = "done"
    /\ analysis.duplicates = 2
    /\ analysis.unique_packets = 2

\* C22: out_of_order is the number of well-formed records whose sequence
\* number is strictly below that of the well-formed record just before it,
\* duplicates included; prev_seq follows every well-formed record and the
\* first record is never counted.
C22_OutOfOrderCountsDescents ==
    (running = "pcap" /\ pcap_pc = "done") =>
        LET w == WellFormedSeqs(packets) IN
        /\ analysis.out_of_order = Cardinality({i \in 2..Len(w) : w[i] < w[i - 1]})
        /\ prev_seq = IF Len(w) = 0 THEN -1 ELSE w[Len(w)]

\* a finished analysis in which a duplicate set prev_seq back before a descent
\* and a skipped record stood between two compared records
C22_Witness ==
    /\ running = "pcap" /\ pcap_pc = "done"
    /\ analysis.out_of_order = 1
    /\ analysis.duplicates = 1
    /\ \E i \in 2..(Len(packets) - 1) :
          /\ packets[i] \in SkippedPackets
          /\ packets[i - 1] \in FrerPackets
          /\ packets[i + 1] \in FrerPackets
          /\ packets[i + 1].seq < packets[i - 1].seq

\* (hi - lo) / hi >= 1/den
RatioAtLeast(lo, hi, den) == ~RatioBelow(lo, hi, den)

\* C23: the rate search issues another probe exactly when
\* (high - low) / high >= tolerance and iterations < max_iterations, and stops
\* as soon as (high - low) / high < tolerance or iterations = max_iterations.
\* (A step of a search that is not a probe is its return.)
C23_ProbesExactlyWhileWideAndInBudget ==
    [][/\ (AdvRunning /\ adv_pc = "loop") =>
            ((probe_count' = probe_count + 1) <=>
                (RatioAtLeast(min_mbps, max_mbps, tolerance_den)
                 /\ iterations < max_iterations))
       /\ (CompRunning /\ comp_pc = "loop") =>
            ((probe_count' = probe_count + 1) <=>
                (RatioAtLeast(min_rate, max_rate, comp_tolerance_den)
                 /\ iteration < comp_max_iterations))]_vars

\* a search that returned inside its budget because the window became narrow
C23_Witness ==
    \/ /\ AdvRunning /\ adv_pc = "done"
       /\ 0 < iterations /\ iterations < max_iterations
       /\ RatioBelow(min_mbps, max_mbps, tolerance_den)
    \/ /\ CompRunning /\ comp_pc = "done"
       /\ iteration < comp_max_iterations
       /\ RatioBelow(min_rate, max_rate, comp_tolerance_den)

\* one iteration from the window [lo, hi] to [lo2, hi2] as the claim C24 has it
MovesOneBound(lo, hi, best, lo2, hi2, best2, mid, passed) ==
    /\ mid = Midpoint(lo, hi)
    /\ IF passed THEN lo2 = mid /\ best2 = mid /\ hi2 = hi
                 ELSE hi2 = mid /\ lo2 = lo /\ best2 = best
    /\ 2 * (hi2 - lo2) = hi - lo

\* C24: every rate-search iteration probes mid = (low + high) / 2 and then
\* moves exactly one bound to mid: low (together with best_known) when the
\* reported loss is below the threshold, high otherwise; the other bound is
\* unchanged, so the window width is halved by every iteration.
C24_IterationMovesOneBoundToMid ==
    [][(probe_count' = probe_count + 1) =>
          /\ AdvRunning =>
               MovesOneBound(min_mbps, max_mbps, best_throughput,
                             min_mbps', max_mbps', best_throughput', last_rate',
                             Passing(last_result', zero_loss_threshold))
          /\ CompRunning =>
               MovesOneBound(min_rate, max_rate, best_rate,
                             min_rate', max_rate', best_rate', last_rate',
                             Passing(last_result', comp_loss_threshold))]_vars

\* C25: the selected series has one element per index of the inputs,
\* selected[i] = min(path1[i], path2[i]) for every index i, hence
\* selected[i] <= path1[i] and selected[i] <= path2[i], and swapping path1 and
\* path2 gives the same series.
C25_SelectedIsPerIndexMinimum ==
    (running \in {"dual", "select"} /\ dual_pc = "done") =>
        /\ Len(path1) = Len(path2) => Len(frer_latencies) = Len(path1)
        /\ \A i \in 1..Len(frer_latencies) :
              /\ i <= Len(path1) /\ i <= Len(path2)
              /\ frer_latencies[i] \in {path1[i], path2[i]}
              /\ frer_latencies[i] <= path1[i]
              /\ frer_latencies[i] <= path2[i]
        /\ frer_latencies = ZipMin(path2, path1)

\* a selection over paths of equal length where each path is the faster one
\* at some index
C25_Witness ==
    /\ running = "select" /\ dual_pc = "done"
    /\ Len(path1) = Len(path2)
    /\ \E i \in 1..Len(path1) : path1[i] < path2[i]
    /\ \E i \in 1..Len(path1) : path2[i] < path1[i]
    /\ Len(frer_latencies) = Len(path1)

\* C26: within one back_to_back_test call the running best burst size is
\* never reset between trials, so the recorded per-trial max_burst values are
\* non-decreasing from trial to trial and max_burst_no_loss equals the value
\* recorded for the first trial.
C26_BestBurstCarriesOverTrials ==
    /\ [][best_burst' >= best_burst]_vars
    /\ [](running = "burst" =>
            /\ \A i \in 1..(Len(trials) - 1) : trials[i] <= trials[i + 1]
            /\ b2b_pc = "done" => max_burst_no_loss = trials[1])

\* a finished burst search whose later trials recorded more than the first
C26_Witness ==
    /\ running = "burst" /\ b2b_pc = "done"
    /\ Len(trials) = num_trials
    /\ 0 < trials[1]
    /\ trials[1] < trials[2]
    /\ trials[2] < trials[3]
    /\ max_burst_no_loss = trials[1]

\* the rates probed so far in the run
ProbedRates == passed_rates \cup bad_rates

\* C27: in every rate search each probe is issued at a rate strictly between
\* the current low and high, and no rate is probed twice in the same search,
\* whatever the probe outcomes.
C27_NoRateProbedTwice ==
    [][(probe_count' = probe_count + 1) =>
          /\ last_rate' \notin ProbedRates
          /\ AdvRunning => (min_mbps < last_rate' /\ last_rate' < max_mbps)
          /\ CompRunning => (min_rate < last_rate' /\ last_rate' < max_rate)]_vars

\* test_path_redundancy has ended: it returned its results or an exception left it
RedundancyEnded == red_pc \in {"returned", "raised"}

\* C28: when test_path_redundancy ends, by returning or because a send step
\* raised, primary_iface and secondary_iface hold the values they had before
\* the call, also when secondary_iface was None before the call.
C28_InterfacesRestoredAtEnd ==
    RedundancyEnded =>
        /\ primary_iface = primary_iface_0
        /\ secondary_iface = secondary_iface_0

\* a call of send_replicated_frames has run its loop to the end
CallReturned == red_pc \in {"test1", "test2", "test3", "returned"} /\ frame_i = count \div 3

\* C29: over the calls of send_replicated_frames on one FRERTest every frame
\* gets a sequence number one greater than the frame before it, no number is
\* used twice by any call, a call that returns has advanced the counter by
\* exactly its count even when sends failed, and a copy sent on the secondary
\* path carries the sequence number of the primary copy of the same frame.
C29_SequenceNumbersConsecutiveAndShared ==
    /\ \A j \in 1..Len(assigned) : assigned[j] = j - 1
    /\ \A i, j \in 1..Len(assigned) : assigned[i] = assigned[j] => i = j
    /\ sequence_number = Len(assigned)
    /\ CallReturned => sequence_number = call_start + count \div 3
    /\ \A c \in sent :
          /\ \E j \in 1..Len(assigned) : assigned[j] = c.seq
          /\ c.path = "secondary" => [seq |-> c.seq, path |-> "primary"] \in sent

\* all three calls returned with two frames each, the first call had a failed
\* send and a frame that went out on both paths
C29_Witness ==
    /\ red_pc = "returned"
    /\ count \div 3 = 2
    /\ results.both_paths[1].errors = 1
    /\ results.both_paths[1].sent_secondary = 1
    /\ sequence_number = 6
    /\ \E c \in sent : c.path = "secondary"

\* C30: for every non-empty sample set the p50 field and the median field of
\* a statistics record are equal, where p50 is taken from the median routine
\* (advanced_rfc2544_test.py) and where it is the interpolated percentile at
\* p = 50 (latency_only_test.py, calculate_stats), for odd and even counts.
C30_P50IsMedian ==
    /\ (LatStats("lat_advanced") \/ LatStats("lat_only") \/ LatStats("lat_calculate_stats")) =>
          lat_stats.p50 = lat_stats.median
    /\ running = "dual" =>
          \A st \in {stats_path1, stats_path2, stats_frer} :
              st # NoStats => st.p50 = st.median

\* an interpolated p50 over an even number of samples whose two middle
\* samples differ
C30_Witness ==
    /\ LatStats("lat_only")
    /\ Len(latencies) = 4
    /\ Sorted(latencies)[2] # Sorted(latencies)[3]
    /\ lat_stats.p50 = Percentile(latencies, 500)

=============================================================================
